---- MODULE Spec2Model ----
(***************************************************************************)
(* Model of agol_survey_etl.py: the query -> transform -> load pipeline    *)
(* that runs once per configured survey, and the warehouse loader with its *)
(* per-row upsert.                                                         *)
(*                                                                         *)
(* The remote API and the postgres server are the environment: every call  *)
(* into them draws its outcome (status code, body, raised exception) from  *)
(* a small set.  Python exceptions that no handler of the script catches   *)
(* end the run (pc = "crashed"), with exc naming the exception and the     *)
(* function it left.                                                       *)
(***************************************************************************)
EXTENDS Integers, Sequences, FiniteSets, TLC

\* ------------------------------------------------------------------ bounds
MaxRows == 2        \* rows in one batch handed to the loader
MaxFeatures == 1    \* features in one API response of the full pipeline
MaxId == 2          \* primary-key values 1..MaxId
MaxVal == 2         \* values of the update column 1..MaxVal
MaxRuns == 2        \* calls of the loader with the same rows

\* ------------------------------------------------------- configuration
\* etl_yaml["surveys"]: the configured surveys, in file order.
SurveyNames == <<"rainfall", "recharge">>

Surveys == 1..Len(SurveyNames)

\* survey_params["json_schema"]: column name -> type tag, in file order.
JsonSchema ==
  << [name |-> "id", tag |-> "int64"],
     [name |-> "value", tag |-> "float64"],
     [name |-> "date_collected", tag |-> "int64"] >>

\* survey_params["db_schema"].keys(): nothing ties it to json_schema, so a
\* configuration may list the same columns, reorder them, or drop one.
DbSchemas ==
  { <<"id", "value", "date_collected">>,
    <<"id", "date_collected", "value">>,
    <<"id", "value">> }

\* survey_params["prim_key"] and survey_params["update_col"].
prim_key == "id"

update_col == "value"

\* Milliseconds in a day: polars.from_epoch(time_unit="ms") cast to Date.
MsPerDay == 86400000

\* date_collected values the API returns (epoch milliseconds, kept below 2^31):
\* 1700000000 ms is 19 days, 16 hours and some after the epoch.
EpochMs == {1700000000}

\* ------------------------------------------------------- pure functions
\* build_schema: type tag -> polars type, anything unknown is String.
PolarsType(tag) ==
  CASE tag = "string" -> "String"
    [] tag = "int64" -> "Int64"
    [] tag = "float64" -> "Float64"
    [] OTHER -> "String"

build_schema(json_schema) ==
  [i \in DOMAIN json_schema |->
     [name |-> json_schema[i].name, type |-> PolarsType(json_schema[i].tag)]]

\* from_epoch(..., "ms") followed by the cast to Date: days since 1970-01-01.
from_epoch(ms) == ms \div MsPerDay

\* One typed row: the attributes in schema (json_schema) order, with
\* date_collected narrowed to a date.
TypedRow(schema, attrs) ==
  [i \in DOMAIN schema |->
     IF schema[i].name = "date_collected"
       THEN from_epoch(attrs[schema[i].name])
       ELSE attrs[schema[i].name]]

\* polars.from_dicts over feature["attributes"], then data.to_numpy().
TransformRows(features) ==
  [k \in DOMAIN features |-> TypedRow(build_schema(JsonSchema), features[k])]

\* Position of a column name in a list of names (0 when absent).
IndexOf(names, c) ==
  IF \E i \in DOMAIN names : names[i] = c
    THEN CHOOSE i \in DOMAIN names : names[i] = c
    ELSE 0

\* build_load_query: the column list is db_schema.keys(), the value list is
\* the row as it comes, positionally.
build_load_query(data, db_schema) ==
  [col_names |-> db_schema,
   values |-> data,
   prim_key |-> prim_key,
   update_col |-> update_col]

\* The row an INSERT proposes: i-th listed column := i-th value.
Proposed(q) ==
  [c \in {q.col_names[i] : i \in DOMAIN q.col_names} |->
     q.values[IndexOf(q.col_names, c)]]

\* Postgres rejects an INSERT whose value list and column list differ in length.
WellFormed(q) == Len(q.values) = Len(q.col_names)

\* A target table without the unique constraint: no insert ever conflicts.
ConflictsNever(tbl, q) == FALSE

Conflicts(tbl, q) ==
  \E i \in DOMAIN tbl : tbl[i][q.prim_key] = Proposed(q)[q.prim_key]

\* DO UPDATE that overwrites every column of the conflicting row.
UpsertAllColumns(tbl, q) ==
  IF Conflicts(tbl, q)
    THEN [i \in DOMAIN tbl |->
            IF tbl[i][q.prim_key] = Proposed(q)[q.prim_key]
              THEN Proposed(q)
              ELSE tbl[i]]
    ELSE Append(tbl, Proposed(q))

\* INSERT ... ON CONFLICT (prim_key) DO UPDATE SET update_col = Excluded.update_col
Upsert(tbl, q) ==
  IF Conflicts(tbl, q)
    THEN [i \in DOMAIN tbl |->
            IF tbl[i][q.prim_key] = Proposed(q)[q.prim_key]
              THEN [tbl[i] EXCEPT ![q.update_col] = Proposed(q)[q.update_col]]
              ELSE tbl[i]]
    ELSE Append(tbl, Proposed(q))

\* A connection left in transaction mode: closing without commit drops the batch.
AfterCloseRollback(before, now) == before

\* psycopg2 connection with autocommit = True: every executed statement is
\* durable at once, so closing the connection keeps what the batch did so far.
AfterClose(before, now) == now

\* A return path that forgets con.close().
con_close_skipped(c) == c

\* con.close()
con_close(c) == "closed"

\* ------------------------------------------------------------ input sets
SeqsUpTo(S, n) == UNION {[1..k -> S] : k \in 0..n}

\* feature["attributes"] of one feature of the API response.
Features == [id : 1..MaxId, value : 1..MaxVal, date_collected : EpochMs]

NoBody == [kind |-> "absent", features |-> <<>>]

\* Response bodies: a feature list, a JSON error object without "features",
\* or a body that is not JSON at all.
Bodies ==
  {[kind |-> "features", features |-> fs] : fs \in SeqsUpTo(Features, MaxFeatures)}
    \cup {[kind |-> "error", features |-> <<>>],
          [kind |-> "nonjson", features |-> <<>>]}

StatusCodes == {200, 404}

\* Rows already in the target table before the run (primary key unique).
InitTables ==
  { <<>>,
    << [id |-> 1, value |-> 0, date_collected |-> 0] >> }

NoExc == [type |-> "none", from |-> "none"]

Unbound == [bound |-> FALSE, status |-> 0]

\* ----------------------------------------------------------------- state
VARIABLES
  pc,            \* position of the script
  survey,        \* index of the survey the loop is at
  db_schema,     \* per survey: survey_params["db_schema"].keys()
  attempted,     \* surveys whose query_agol_data call has started
  layer_r,       \* local of query_agol_data: the response object, if bound
  raw_files,     \* raw_data/<survey>_<date>.json, per survey
  processed,     \* surveys whose parquet file was written
  proc_data,     \* rows handed to the loader (data.to_numpy())
  con,           \* local of the loader: "unset", "None", "open", "closed"
  probe,         \* outcome of the probe's cur.execute
  row_idx,       \* 1-based position of the loader's for loop
  results,       \* how each call of the loader ended, oldest first
  table,         \* per survey: rows of the target table, in heap order
  table0,        \* per survey: the target table before the run
  runs,          \* calls of the loader so far
  log,           \* log records written
  exc            \* the exception that ended the run, if any

vars ==
  <<pc, survey, db_schema, attempted, layer_r, raw_files, processed, proc_data,
    con, probe, row_idx, results, table, table0, runs, log, exc>>

Logged(level, msg) == log \cup {<<SurveyNames[survey], level, msg>>}

\* State after the module-level code and the yaml load, before the loop.
\* The surveys of one run share a column layout and start from like tables.
Init ==
  /\ pc = "query"
  /\ survey = 1
  /\ db_schema \in {[s \in Surveys |-> d] : d \in DbSchemas}
  /\ attempted = {}
  /\ layer_r = Unbound
  /\ raw_files = [s \in Surveys |-> NoBody]
  /\ processed = {}
  /\ proc_data = <<>>
  /\ con = "unset"
  /\ probe = "none"
  /\ row_idx = 1
  /\ results = <<>>
  /\ table0 \in {[s \in Surveys |-> t] : t \in InitTables}
  /\ table = table0
  /\ runs = 0
  /\ log = {}
  /\ exc = NoExc

\* An exception no handler catches leaves function f and ends the run.
Raise(type, f) ==
  /\ pc' = "crashed"
  /\ exc' = [type |-> type, from |-> f]

\* query_agol_data, lines 43-62.
query_agol_data ==
  /\ pc = "query"
  /\ attempted' = attempted \cup {survey}
  /\ \/ \* requests.get raises RequestException: caught and logged, then
        \* line 59 reads layer_r, which was never bound.
        /\ layer_r' = Unbound
        /\ log' = Logged("error", "API request failed")
        /\ Raise("UnboundLocalError", "query_agol_data")
        /\ UNCHANGED raw_files
     \/ \E status \in StatusCodes, body \in Bodies :
          /\ layer_r' = [bound |-> TRUE, status |-> status]
          /\ log' = IF status = 200
                      THEN Logged("info", "Successfully queried")
                      ELSE Logged("exception", "Bad request")
          /\ IF body.kind = "nonjson"
               THEN \* layer_r.json() fails on a body that is not JSON
                    /\ Raise("JSONDecodeError", "query_agol_data")
                    /\ UNCHANGED raw_files
               ELSE \* lines 59-62 run whatever the status was
                    /\ raw_files' = [raw_files EXCEPT ![survey] = body]
                    /\ pc' = "transform"
                    /\ UNCHANGED exc
  /\ UNCHANGED <<survey, db_schema, processed, proc_data, con, probe, row_idx,
                 results, table, table0, runs>>

\* transform_agol_data, lines 75-92.
transform_agol_data ==
  /\ pc = "transform"
  /\ CASE raw_files[survey].kind = "absent" ->
            /\ Raise("FileNotFoundError", "transform_agol_data")
            /\ UNCHANGED <<proc_data, processed>>
       [] raw_files[survey].kind = "error" ->
            \* data["features"] on a JSON object without that key
            /\ Raise("KeyError", "transform_agol_data")
            /\ UNCHANGED <<proc_data, processed>>
       [] OTHER ->
            /\ proc_data' = TransformRows(raw_files[survey].features)
            /\ processed' = processed \cup {survey}
            /\ pc' = "connect"
            /\ UNCHANGED exc
  /\ UNCHANGED <<survey, db_schema, attempted, layer_r, raw_files, con, probe,
                 row_idx, results, table, table0, runs, log>>

\* get_pg_connection, lines 126-135, called at line 178.
get_pg_connection ==
  /\ pc = "connect"
  /\ \/ /\ con' = "open"
        /\ log' = Logged("info", "Successfully connected")
     \/ \* pg.connect raises OperationalError: logged, the function falls
        \* off its end and returns None
        /\ con' = "None"
        /\ log' = Logged("error", "connect OperationalError")
  /\ pc' = "probe"
  /\ runs' = runs + 1
  /\ probe' = "none"
  /\ UNCHANGED <<survey, db_schema, attempted, layer_r, raw_files, processed,
                 proc_data, row_idx, results, table, table0, exc>>

\* check_table_exists, lines 149-163, called at line 179.
check_table_exists ==
  /\ pc = "probe"
  /\ IF con = "None"
       THEN \* con.cursor() on None, outside any try
            /\ Raise("AttributeError", "check_table_exists")
            /\ UNCHANGED <<probe, log, row_idx>>
       ELSE \/ /\ probe' = "ok"
               /\ log' = Logged("info", "Table exists")
               /\ pc' = "rows"
               /\ row_idx' = 1
               /\ UNCHANGED exc
            \/ /\ probe' = "OperationalError"
               /\ log' = Logged("error", "probe OperationalError")
               /\ pc' = "rows"
               /\ row_idx' = 1
               /\ UNCHANGED exc
            \/ \* a missing table is psycopg2.errors.UndefinedTable, a
               \* ProgrammingError: not what line 162 catches
               /\ probe' = "UndefinedTable"
               /\ Raise("UndefinedTable", "check_table_exists")
               /\ UNCHANGED <<log, row_idx>>
  /\ UNCHANGED <<survey, db_schema, attempted, layer_r, raw_files, processed,
                 proc_data, con, results, table, table0, runs>>

\* One iteration of the loop at lines 182-184, with the handler at 195-197.
execute_row ==
  /\ pc = "rows"
  /\ row_idx <= Len(proc_data)
  /\ LET q == build_load_query(proc_data[row_idx], db_schema[survey])
     IN  \/ /\ WellFormed(q)
            /\ table' = [table EXCEPT ![survey] = Upsert(table[survey], q)]
            /\ row_idx' = row_idx + 1
            /\ UNCHANGED <<pc, con, results, log, exc>>
         \/ \* cur.execute raises OperationalError: caught at line 195
            /\ con' = con_close(con)
            /\ table' = [table EXCEPT
                           ![survey] = AfterClose(table0[survey], table[survey])]
            /\ results' = Append(results, "OperationalError")
            /\ log' = Logged("error", "load OperationalError")
            /\ pc' = "returned"
            /\ UNCHANGED <<row_idx, exc>>
         \/ \* any other psycopg2 error (syntax, integrity, data) is not caught
            /\ results' = Append(results, "ProgrammingError")
            /\ Raise("ProgrammingError", "load_data_into_pg_warehouse")
            /\ UNCHANGED <<con, table, row_idx, log>>
  /\ UNCHANGED <<survey, db_schema, attempted, layer_r, raw_files, processed,
                 proc_data, probe, table0, runs>>

\* Lines 185-194 and 198: the loop is over, close and report.
load_finish ==
  /\ pc = "rows"
  /\ row_idx > Len(proc_data)
  /\ con' = con_close(con)
  /\ table' = [table EXCEPT ![survey] = AfterClose(table0[survey], table[survey])]
  /\ results' = Append(results, "ok")
  /\ log' = Logged("info", "Data was successfully loaded")
  /\ pc' = "returned"
  /\ UNCHANGED <<survey, db_schema, attempted, layer_r, raw_files, processed,
                 proc_data, probe, row_idx, table0, runs, exc>>

\* The for loop of the script, lines 242-253: next survey, or the last log line.
next_survey ==
  /\ pc = "returned"
  /\ IF survey < Len(SurveyNames)
       THEN /\ survey' = survey + 1
            /\ pc' = "query"
            /\ layer_r' = Unbound
            /\ con' = "unset"
            /\ proc_data' = <<>>
            /\ runs' = 0
            /\ results' = <<>>
            /\ probe' = "none"
            /\ UNCHANGED log
       ELSE /\ pc' = "done"
            /\ log' = log \cup {<<"", "info", "Succesfully ran AGOL ETL">>}
            /\ UNCHANGED <<survey, layer_r, con, proc_data, runs, results, probe>>
  /\ UNCHANGED <<db_schema, attempted, raw_files, processed, row_idx,
                 table, table0, exc>>

Next ==
  \/ query_agol_data
  \/ transform_agol_data
  \/ get_pg_connection
  \/ check_table_exists
  \/ execute_row
  \/ load_finish
  \/ next_survey

Spec == Init /\ [][Next]_vars

\* ------------------------------------------------- the loader on its own
\* Batches a transform can hand to the loader.
Batches == {TransformRows(fs) : fs \in SeqsUpTo(Features, MaxRows)}

\* The loader is about to be called for the first survey with some batch.
InitLoad ==
  /\ pc = "connect"
  /\ survey = 1
  /\ db_schema \in {[s \in Surveys |-> d] : d \in DbSchemas}
  /\ attempted = {1}
  /\ layer_r = [bound |-> TRUE, status |-> 200]
  /\ proc_data \in Batches
  /\ raw_files = [s \in Surveys |-> NoBody]
  /\ processed = {1}
  /\ con = "unset"
  /\ probe = "none"
  /\ row_idx = 1
  /\ results = <<>>
  /\ table0 \in {[s \in Surveys |-> t] : t \in InitTables}
  /\ table = table0
  /\ runs = 0
  /\ log = {}
  /\ exc = NoExc

\* load_data_into_pg_warehouse is called again with the same arguments.
load_again ==
  /\ pc = "returned"
  /\ runs < MaxRuns
  /\ pc' = "connect"
  /\ con' = "unset"
  /\ UNCHANGED <<survey, db_schema, attempted, layer_r, raw_files, processed,
                 proc_data, probe, row_idx, results, table, table0, runs, log,
                 exc>>

NextLoad ==
  \/ get_pg_connection
  \/ check_table_exists
  \/ execute_row
  \/ load_finish
  \/ load_again

SpecLoad == InitLoad /\ [][NextLoad]_vars

\* --------------------------------------------------------- vocabulary
Name == SurveyNames[survey]

Last(sq) == sq[Len(sq)]

\* The record the upsert of a typed row proposes under a column list.
RowAs(row, cols) == Proposed(build_load_query(row, cols))

\* The row's value for the field called c (fields are in json_schema order).
FieldOf(row, c) == row[IndexOf([i \in DOMAIN JsonSchema |-> JsonSchema[i].name], c)]

\* The k-th smallest member of a finite set of integers.
Nth(S, k) == CHOOSE i \in S : Cardinality({j \in S : j < i}) = k - 1

\* What a table must look like after rows[1..n] were upserted into t0, said
\* without running the upserts: a key already in t0 keeps its row and place and
\* takes the update column of the key's last occurrence; a new key gets the row
\* of its first occurrence, in order of first occurrence, with the update
\* column of its last occurrence.
Expected(t0, cols, rows, n) ==
  LET rec(i) == RowAs(rows[i], cols)
      key(i) == rec(i)[prim_key]
      lastOf(k) == Nth({i \in 1..n : key(i) = k},
                       Cardinality({i \in 1..n : key(i) = k}))
      oldKeys == {t0[j][prim_key] : j \in DOMAIN t0}
      firsts == {i \in 1..n :
                   /\ key(i) \notin oldKeys
                   /\ \A j \in 1..(i - 1) : key(j) # key(i)}
      kept == [j \in DOMAIN t0 |->
                 IF \E i \in 1..n : key(i) = t0[j][prim_key]
                   THEN [t0[j] EXCEPT
                           ![update_col] = rec(lastOf(t0[j][prim_key]))[update_col]]
                   ELSE t0[j]]
      added == [k \in 1..Cardinality(firsts) |->
                  [rec(Nth(firsts, k)) EXCEPT
                     ![update_col] = rec(lastOf(key(Nth(firsts, k))))[update_col]]]
  IN  kept \o added

AllOk == results # <<>> /\ \A i \in DOMAIN results : results[i] = "ok"

\* ------------------------------------------------------------------ claims

\* C1: calling load_data_into_pg_warehouse twice with the same rows leaves the
\* table as one call leaves it, and that table holds exactly one row for every
\* primary-key value of the input.
C1_LoadIdempotent ==
  (pc = "returned" /\ AllOk) =>
     /\ table[survey] =
          Expected(table0[survey], db_schema[survey], proc_data, Len(proc_data))
     /\ \A i \in DOMAIN proc_data :
          Cardinality({j \in DOMAIN table[survey] :
                         table[survey][j][prim_key]
                           = RowAs(proc_data[i], db_schema[survey])[prim_key]}) = 1

\* Two successful calls, over a batch that names one key twice with two values.
C1_Witness ==
  /\ pc = "returned"
  /\ results = <<"ok", "ok">>
  /\ Len(proc_data) = 2
  /\ proc_data[1][1] = proc_data[2][1]
  /\ proc_data[1][2] # proc_data[2][2]

\* C2: an upsert whose key is already in the table sets that row's update
\* column to the incoming value, leaves the row's other columns alone and
\* changes no other row.
C2_ConflictUpdatesOneColumn ==
  [][(pc = "rows" /\ row_idx <= Len(proc_data) /\ row_idx' = row_idx + 1) =>
       LET new == RowAs(proc_data[row_idx], db_schema[survey])
           old == table[survey]
           now == table'[survey]
       IN  (\E i \in DOMAIN old : old[i][prim_key] = new[prim_key]) =>
             /\ DOMAIN now = DOMAIN old
             /\ \A i \in DOMAIN old :
                  IF old[i][prim_key] = new[prim_key]
                    THEN /\ DOMAIN now[i] = DOMAIN old[i]
                         /\ now[i][update_col] = new[update_col]
                         /\ \A c \in DOMAIN old[i] \ {update_col} :
                              now[i][c] = old[i][c]
                    ELSE now[i] = old[i]
             /\ \A s \in Surveys \ {survey} : table'[s] = table[s]]_vars

\* The row that was in the table before the run met an incoming row with its
\* key: it took the incoming value and kept its own date.
C2_Witness ==
  /\ pc = "rows"
  /\ row_idx = 2
  /\ runs = 1
  /\ Len(table0[survey]) = 1
  /\ db_schema[survey] = <<"id", "value", "date_collected">>
  /\ proc_data[1][1] = table0[survey][1].id
  /\ table[survey][1].value = proc_data[1][2]
  /\ table[survey][1].value # table0[survey][1].value
  /\ table[survey][1].date_collected = table0[survey][1].date_collected
  /\ table[survey][1].date_collected # proc_data[1][3]

\* C3: a failed connect is logged, no exception leaves the loader and no row
\* is written.
C3_ConnectFailureContained ==
  (con = "None" /\ pc # "probe") =>
     /\ pc # "crashed"
     /\ <<Name, "error", "connect OperationalError">> \in log
     /\ table[survey] = table0[survey]

\* C4: on a status other than 200 query_agol_data does not raise, logs the bad
\* response and writes no raw-output file.
C4_Non200WritesNoFile ==
  (pc # "query" /\ layer_r.bound /\ layer_r.status # 200) =>
     /\ exc.from # "query_agol_data"
     /\ <<Name, "exception", "Bad request">> \in log
     /\ raw_files[survey].kind = "absent"

\* C5: on a network-level failure query_agol_data logs the error, writes no
\* file and returns normally.
C5_NetworkFailureReturns ==
  (pc # "query" /\ ~layer_r.bound) =>
     /\ exc.from # "query_agol_data"
     /\ <<Name, "error", "API request failed">> \in log
     /\ raw_files[survey].kind = "absent"

\* C6: whatever fails in an earlier survey, the run has attempted every
\* configured survey by the time it ends.
C6_EverySurveyAttempted ==
  (pc \in {"done", "crashed"}) => attempted = Surveys

\* C7: a failing table-existence probe is caught and logged inside
\* check_table_exists and the loader goes on to the upserts.
C7_ProbeFailureContained ==
  (probe \in {"OperationalError", "UndefinedTable"}) =>
     /\ exc.from # "check_table_exists"
     /\ <<Name, "error", "probe OperationalError">> \in log
     /\ pc # "probe"

\* C8: when the loader got a connection and returns, the connection is
\* closed, after a full batch and after a caught OperationalError alike.
C8_ConnectionClosedOnReturn ==
  (pc = "returned" /\ con # "None") => con = "closed"

\* The loader returned through its except branch: the execute of its only row
\* raised OperationalError, and the connection it had opened is closed.
C8_Witness ==
  /\ pc = "returned"
  /\ results = <<"OperationalError">>
  /\ row_idx = 1
  /\ Len(proc_data) = 1
  /\ con = "closed"

\* C9: when the k-th row's execute fails, the table holds exactly what the
\* first k-1 upserts did: they stay, and no later row is executed.
C9_PartialLoadKept ==
  (/\ pc \in {"returned", "crashed"}
   /\ runs = 1
   /\ results # <<>>
   /\ Last(results) \in {"OperationalError", "ProgrammingError"}) =>
     table[survey] =
       Expected(table0[survey], db_schema[survey], proc_data, row_idx - 1)

\* The second of two rows with different new keys failed: the first is in the
\* table, the second is not.
C9_Witness ==
  /\ pc = "returned"
  /\ results = <<"OperationalError">>
  /\ Len(proc_data) = 2
  /\ row_idx = 2
  /\ proc_data[1][1] # proc_data[2][1]
  /\ Len(table[survey]) = Len(table0[survey]) + 1
  /\ \A j \in DOMAIN table[survey] : table[survey][j].id # proc_data[2][1]

\* C10: every upsert lists the db_schema columns in order, with as many values
\* as columns, the i-th value being the row's field named by the i-th column.
C10_ColumnsPairByName ==
  (pc = "rows" /\ row_idx <= Len(proc_data)) =>
     LET q == build_load_query(proc_data[row_idx], db_schema[survey])
     IN  /\ q.col_names = db_schema[survey]
         /\ Len(q.values) = Len(q.col_names)
         /\ \A i \in DOMAIN q.col_names :
              q.values[i] = FieldOf(proc_data[row_idx], q.col_names[i])

====
